---- MODULE Spec2Model ----
(***************************************************************************)
(* Model of cargo-run-wasm, src/lib.rs: Args::from_env and                 *)
(* run_wasm_with_css.                                                      *)
(*                                                                         *)
(* A Rust string is a sequence of one-character strings; a literal whose   *)
(* inside is never inspected is a single element ("target", ".wasm").      *)
(* A path is a string whose separators are the elements "/".               *)
(* Option<T> is a sequence of length 0 (None) or 1 (Some).                 *)
(* Argument vectors are valid UTF-8 (the into_string().unwrap() of line 48 *)
(* is not exercised).                                                      *)
(***************************************************************************)
EXTENDS Naturals, Sequences, FiniteSets

\* ------------------------------------------------------------------ bounds
MaxArgs == 3

\* ----------------------------------------------------------- string helpers
None == <<>>
Some(v) == <<v>>

\* str::starts_with
StartsWith(s, pat) == Len(s) >= Len(pat) /\ SubSeq(s, 1, Len(pat)) = pat

\* str::contains
StrContains(s, pat) ==
    \E i \in 1..(Len(s) + 1) :
        i + Len(pat) - 1 <= Len(s) /\ SubSeq(s, i, i + Len(pat) - 1) = pat

\* number of non-overlapping occurrences, scanning left to right
RECURSIVE Occurrences(_, _)
Occurrences(s, pat) ==
    IF Len(s) < Len(pat) THEN 0
    ELSE IF StartsWith(s, pat)
         THEN 1 + Occurrences(SubSeq(s, Len(pat) + 1, Len(s)), pat)
         ELSE Occurrences(Tail(s), pat)

\* str::replace: every non-overlapping match, left to right, no rescan
RECURSIVE Replace(_, _, _)
Replace(s, pat, rep) ==
    IF Len(s) < Len(pat) THEN s
    ELSE IF StartsWith(s, pat)
         THEN rep \o Replace(SubSeq(s, Len(pat) + 1, Len(s)), pat, rep)
         ELSE <<Head(s)>> \o Replace(Tail(s), pat, rep)

\* Path::join with a relative right-hand side
Join(p, q) == IF p = <<"/">> THEN p \o q ELSE p \o <<"/">> \o q

\* ------------------------------------------------------------ the CLI words
FlagRelease   == <<"-", "-", "r", "e", "l", "e", "a", "s", "e">>
FlagExample   == <<"-", "-", "e", "x", "a", "m", "p", "l", "e">>
FlagBuildOnly == <<"-", "-", "b", "u", "i", "l", "d", "-", "o", "n", "l", "y">>
FlagFeatures  == <<"-", "-", "f", "e", "a", "t", "u", "r", "e", "s">>
FlagHost      == <<"-", "-", "h", "o", "s", "t">>
FlagPort      == <<"-", "-", "p", "o", "r", "t">>

BoolFlags  == {FlagRelease, FlagExample, FlagBuildOnly}
ValueFlags == {FlagFeatures, FlagHost, FlagPort}
RecognizedFlags == BoolFlags \cup ValueFlags

HELP == <<"cargo run-wasm USAGE: cargo run-wasm [OPTIONS] NAME ...">>

\* ------------------------------------------------------------------ inputs
TokBogus == <<"-", "-", "b", "o", "g", "u", "s">>
TokDemo  == <<"d", "e", "m", "o">>
Tok80    == <<"8", "0">>
TokBrace == <<"{", "{", "c", "s", "s", "}", "}">>

Tokens == RecognizedFlags \cup {TokBogus, TokDemo, Tok80, TokBrace}

ArgVectors == UNION {[1..n -> Tokens] : n \in 0..MaxArgs}

CloseStyle == <<"<", "/", "s", "t", "y", "l", "e", ">">>
NamePlaceholder == <<"{", "{", "n", "a", "m", "e", "}", "}">>
CssPlaceholder  == <<"{", "{", "c", "s", "s", "}", "}">>

CssPlain    == <<"b", "{", "m", ":", "0", "}">>
CssClosing  == <<"b", "{", "}">> \o CloseStyle \o <<"<", "p", ">">>
CssSpaced   == <<"<", "/", "s", "t", "y", "l", "e", " ", ">">>
CssWithName == <<"b", "{", "}">> \o NamePlaceholder
CssWithCss  == CssPlaceholder \o <<"b">>

CssInputs == {CssPlain, CssClosing, CssSpaced, CssWithName, CssWithCss}

DirWs      == <<"/", "w", "s", "/", "run-wasm">>
DirTop     == <<"/", "run-wasm">>
DirRoot    == <<"/">>
ManifestDirEnv == {None, Some(DirWs), Some(DirTop), Some(DirRoot)}

CargoEnv == {None, Some(<<"/", "opt", "/", "cargo">>)}

\* ---------------------------------------------------------------- pico_args
\* position of the first element equal to key, 0 when absent
IndexOf(v, key) ==
    IF \E i \in 1..Len(v) : v[i] = key
    THEN CHOOSE i \in 1..Len(v) : v[i] = key /\ \A j \in 1..(i - 1) : v[j] # key
    ELSE 0

RemoveAt(v, i) == SubSeq(v, 1, i - 1) \o SubSeq(v, i + 1, Len(v))

\* variant: reports the flag but leaves it in the vector
ContainsFlagKeep(v, key) == [found |-> IndexOf(v, key) # 0, rest |-> v]

\* Arguments::contains: removes the first occurrence of the flag
ContainsFlag(v, key) ==
    LET i == IndexOf(v, key)
    IN  IF i = 0 THEN [found |-> FALSE, rest |-> v]
        ELSE [found |-> TRUE, rest |-> RemoveAt(v, i)]

\* Arguments::opt_value_from_str::<String>: the first occurrence of the key
\* and the token after it are removed; a key in last position is
\* Err(OptionWithoutAValue)
OptValue(v, key) ==
    LET i == IndexOf(v, key)
    IN  IF i = 0 THEN [ok |-> TRUE, value |-> None, rest |-> v]
        ELSE IF i = Len(v) THEN [ok |-> FALSE, value |-> None, rest |-> v]
        ELSE [ok |-> TRUE, value |-> Some(v[i + 1]),
              rest |-> RemoveAt(RemoveAt(v, i), i)]

\* ---------------------------------------------------------- Args::from_env
NoErr == [kind |-> "None", tok |-> <<>>, len |-> 0, list |-> <<>>]
NoArgs == [release |-> FALSE, example |-> FALSE, name |-> <<>>,
           features |-> None, build_only |-> FALSE, host |-> None,
           port |-> None]

ResPanic(unused) == [kind |-> "Panic", args |-> NoArgs, err |-> NoErr,
                     unused |-> unused]
ResErr(e, unused) == [kind |-> "Err", args |-> NoArgs, err |-> e,
                      unused |-> unused]
ResOk(a, unused)  == [kind |-> "Ok", args |-> a, err |-> NoErr,
                      unused |-> unused]

IsOption(tok) == StartsWith(tok, <<"-">>)

\* variant: only the first unused argument is looked at
FirstOptionHeadOnly(unused) ==
    IF unused # <<>> /\ IsOption(unused[1]) THEN Some(unused[1]) ELSE None

\* lines 51-55: the first unused argument that starts with '-'
FirstOption(unused) ==
    IF \E i \in 1..Len(unused) : IsOption(unused[i])
    THEN LET i == CHOOSE k \in 1..Len(unused) :
                     /\ IsOption(unused[k])
                     /\ \A j \in 1..(k - 1) : ~IsOption(unused[j])
         IN  Some(unused[i])
    ELSE None

\* variant: extra free arguments are ignored
MatchLenNoUpper(unused, release, example, build_only, features, host, port) ==
    IF Len(unused) = 0
    THEN ResErr([kind |-> "MissingName", tok |-> <<>>, len |-> 0,
                 list |-> <<>>], unused)
    ELSE ResOk([release |-> release, example |-> example,
                name |-> unused[1], features |-> features,
                build_only |-> build_only, host |-> host, port |-> port],
               unused)

\* lines 57-72
MatchLen(unused, release, example, build_only, features, host, port) ==
    IF Len(unused) = 0
    THEN ResErr([kind |-> "MissingName", tok |-> <<>>, len |-> 0,
                 list |-> <<>>], unused)
    ELSE IF Len(unused) = 1
    THEN ResOk([release |-> release, example |-> example,
                name |-> unused[1], features |-> features,
                build_only |-> build_only, host |-> host, port |-> port],
               unused)
    ELSE ResErr([kind |-> "TooManyArgs", tok |-> <<>>, len |-> Len(unused),
                 list |-> unused], unused)

FromEnv(argv) ==
    LET r1 == ContainsFlag(argv, FlagRelease)
        r2 == ContainsFlag(r1.rest, FlagExample)
        r3 == ContainsFlag(r2.rest, FlagBuildOnly)
        f  == OptValue(r3.rest, FlagFeatures)
        h  == OptValue(f.rest, FlagHost)
        p  == OptValue(h.rest, FlagPort)
    IN  IF ~f.ok THEN ResPanic(f.rest)
        ELSE IF ~h.ok THEN ResPanic(h.rest)
        ELSE IF ~p.ok THEN ResPanic(p.rest)
        ELSE LET unused == p.rest
                 opt == FirstOption(unused)
             IN  IF opt # None
                 THEN ResErr([kind |-> "UnknownOption", tok |-> opt[1],
                              len |-> 0, list |-> <<>>], unused)
                 ELSE MatchLen(unused, r1.found, r2.found, r3.found,
                               f.value, h.value, p.value)


\* ------------------------------------------------------- run_wasm_with_css
\* variant: the opening tag is searched instead of the closing one
CssRejectedOpenTag(c) == StrContains(c, <<"<", "s", "t", "y", "l", "e", ">">>)

\* line 97
CssRejected(c) == StrContains(c, CloseStyle)

\* variant: the return of line 107 is missing
AfterArgsNoReturn(kind) == IF kind = "Panic" THEN "panicked" ELSE "root"

\* lines 103-109: where the run goes after Args::from_env
AfterArgs(kind) ==
    IF kind = "Ok" THEN "root"
    ELSE IF kind = "Err" THEN "returned"
    ELSE "panicked"

\* line 110
Profile(a) == IF a.release THEN <<"release">> ELSE <<"debug">>

\* line 113
CargoProgram(env) == IF env = None THEN <<"cargo">> ELSE env[1]

\* lines 114-118: Path::ancestors().nth(1), None for a path without parent
LastSep(p) ==
    IF \E i \in 1..Len(p) : p[i] = "/"
    THEN CHOOSE i \in 1..Len(p) :
             p[i] = "/" /\ \A j \in (i + 1)..Len(p) : p[j] # "/"
    ELSE 0

Parent(p) ==
    IF p = <<"/">> \/ p = <<>> THEN None
    ELSE IF LastSep(p) = 0 THEN Some(<<>>)
    ELSE IF LastSep(p) = 1 THEN Some(<<"/">>)
    ELSE Some(SubSeq(p, 1, LastSep(p) - 1))

TargetDir == <<"target", "/", "wasm-examples-target">>
TargetTriple == <<"wasm32-unknown-unknown">>

\* lines 119-143
CargoArgs(a) ==
    <<  <<"build">>, <<"--target">>, TargetTriple,
        <<"--target-dir">>, TargetDir >>
    \o (IF a.example THEN <<FlagExample, a.name>>
        ELSE << <<"--package">>, a.name >>)
    \o (IF a.features # None THEN <<FlagFeatures, a.features[1]>> ELSE <<>>)
    \o (IF a.release THEN <<FlagRelease>> ELSE <<>>)

\* variant: the exit status is not looked at
AfterCargoIgnoreStatus(success) == "mkdir"

\* lines 149-152: where the run goes after the compiler's exit status
AfterCargo(success) == IF success THEN "mkdir" ELSE "returned"

\* variant: the examples directory is forgotten
WasmSourceFlat(root, a) ==
    Join(Join(Join(root, <<"target", "/", "wasm-examples-target", "/",
                           "wasm32-unknown-unknown">>), Profile(a)),
         a.name \o <<".wasm">>)

\* lines 155-163
WasmSource(root, a) ==
    LET target_profile ==
            Join(Join(root, <<"target", "/", "wasm-examples-target", "/",
                              "wasm32-unknown-unknown">>), Profile(a))
        dir == IF a.example THEN Join(target_profile, <<"examples">>)
               ELSE target_profile
    IN  Join(dir, a.name \o <<".wasm">>)

\* line 165
ExampleDest(root, a) ==
    Join(Join(root, <<"target", "/", "wasm-examples">>), a.name)

\* line 177: index.template.html, a page with one {{css}} inside the style
\* element and one {{name}} in the module import
IndexTemplate ==
    <<"<html><head><style type=text/css>">> \o CssPlaceholder
    \o <<"</style></head><body><script type=module>import init from './">>
    \o NamePlaceholder \o <<".js'; init();</script></body></html>">>

\* variant: the two replacements in the other order
RenderIndexCssFirst(template, name, c) ==
    Replace(Replace(template, CssPlaceholder, c), NamePlaceholder, name)

\* lines 178-181
RenderIndex(template, name, c) ==
    Replace(Replace(template, NamePlaceholder, name), CssPlaceholder, c)

\* variant: build_only is not looked at
ServeWantedAlways(a) == TRUE

\* line 184
ServeWanted(a) == ~a.build_only

\* lines 186-190: str::parse::<u32>, None on a malformed port
Digits == <<"0", "1", "2", "3", "4", "5", "6", "7", "8", "9">>
IsDigit(ch) == \E d \in 1..10 : Digits[d] = ch
DigitVal(ch) == (CHOOSE d \in 1..10 : Digits[d] = ch) - 1

RECURSIVE Decimal(_)
Decimal(s) ==
    IF s = <<>> THEN 0
    ELSE Decimal(SubSeq(s, 1, Len(s) - 1)) * 10 + DigitVal(s[Len(s)])

\* Ports of at most nine digits, which all fit a u32; longer strings are not
\* among the inputs.
ParsePort(s) ==
    LET body == IF s # <<>> /\ Head(s) = "+" THEN Tail(s) ELSE s
    IN  IF body = <<>> \/ \E i \in 1..Len(body) : ~IsDigit(body[i])
        THEN None
        ELSE IF Len(body) > 9 THEN None
        ELSE Some(Decimal(body))

DefaultHost == <<"localhost">>
DefaultPort == <<"8", "0", "0", "0">>

\* The compiler accepts only package and target names made of letters,
\* digits, '-' and '_' (line 180: "`{` not being valid in a crate name"),
\* so a build of any other name fails.
NameChars ==
    {"a", "b", "c", "d", "e", "f", "g", "h", "i", "j", "k", "l", "m", "n",
     "o", "p", "q", "r", "s", "t", "u", "v", "w", "x", "y", "z", "-", "_",
     "0", "1", "2", "3", "4", "5", "6", "7", "8", "9"}
ValidCrateName(name) ==
    name # <<>> /\ \A i \in 1..Len(name) : name[i] \in NameChars

\* ------------------------------------------------------------------- state
VARIABLES
    pc,           \* position of the run inside run_wasm_with_css
    css,          \* the css argument
    argv,         \* Option: the process arguments once Arguments::from_env read them
    parsed,       \* the value of Args::from_env()
    project_root, \* Option: project_root once computed
    cargoCalls,   \* invocations of the compiler, in order
    dirs,         \* directories created with create_dir_all
    bindgenCalls, \* Bindgen::generate calls, in order
    files,        \* files written with fs::write
    portParsed,   \* Option: the parsed port
    serverCalls,  \* devserver_lib::run calls
    stdout        \* what this program printed, in order

vars == <<pc, css, argv, parsed, project_root, cargoCalls, dirs, bindgenCalls,
          files, portParsed, serverCalls, stdout>>

NotParsed == [kind |-> "None", args |-> NoArgs, err |-> NoErr, unused |-> <<>>]

Init ==
    /\ pc = "validate"
    /\ css \in CssInputs
    /\ argv = None
    /\ parsed = NotParsed
    /\ project_root = None
    /\ cargoCalls = <<>>
    /\ dirs = {}
    /\ bindgenCalls = <<>>
    /\ files = {}
    /\ portParsed = None
    /\ serverCalls = <<>>
    /\ stdout = <<>>

\* lines 97-101
ValidateCss ==
    /\ pc = "validate"
    /\ pc' = IF CssRejected(css) THEN "panicked" ELSE "args"
    /\ UNCHANGED <<css, argv, parsed, project_root, cargoCalls, dirs,
                   bindgenCalls, files, portParsed, serverCalls, stdout>>

\* lines 103-109
ParseArgs ==
    /\ pc = "args"
    /\ \E v \in ArgVectors :
        /\ argv' = Some(v)
        /\ parsed' = FromEnv(v)
        /\ pc' = AfterArgs(FromEnv(v).kind)
        /\ stdout' = IF FromEnv(v).kind = "Err"
                     THEN Append(stdout, [what |-> "error and HELP",
                                          err |-> FromEnv(v).err,
                                          text |-> HELP, name |-> <<>>,
                                          host |-> <<>>, port |-> 0])
                     ELSE stdout
    /\ UNCHANGED <<css, project_root, cargoCalls, dirs, bindgenCalls, files,
                   portParsed, serverCalls>>

\* lines 114-118: CARGO_MANIFEST_DIR unset, or without a parent, panics
ResolveRoot ==
    /\ pc = "root"
    /\ \E m \in ManifestDirEnv :
        IF m = None \/ Parent(m[1]) = None
        THEN pc' = "panicked" /\ UNCHANGED project_root
        ELSE pc' = "cargo" /\ project_root' = Parent(m[1])
    /\ UNCHANGED <<css, argv, parsed, cargoCalls, dirs, bindgenCalls, files,
                   portParsed, serverCalls, stdout>>

\* lines 113, 119-152: the compiler runs to completion and reports a status
RunCargo ==
    /\ pc = "cargo"
    /\ \E env \in CargoEnv, success \in BOOLEAN :
        /\ success => ValidCrateName(parsed.args.name)
        /\ cargoCalls' = Append(cargoCalls,
                                [program |-> CargoProgram(env),
                                 current_dir |-> project_root[1],
                                 args |-> CargoArgs(parsed.args),
                                 success |-> success])
        /\ pc' = AfterCargo(success)
    /\ UNCHANGED <<css, argv, parsed, project_root, dirs, bindgenCalls, files,
                   portParsed, serverCalls, stdout>>

\* lines 144-148: the compiler cannot be spawned, status().unwrap() panics
CargoSpawnFails ==
    /\ pc = "cargo"
    /\ pc' = "panicked"
    /\ UNCHANGED <<css, argv, parsed, project_root, cargoCalls, dirs,
                   bindgenCalls, files, portParsed, serverCalls, stdout>>

\* lines 165-166
CreateDir ==
    /\ pc = "mkdir"
    /\ \E ok \in BOOLEAN :
        IF ok
        THEN /\ dirs' = dirs \cup {ExampleDest(project_root[1], parsed.args)}
             /\ pc' = "bindgen"
        ELSE /\ pc' = "panicked"
             /\ UNCHANGED dirs
    /\ UNCHANGED <<css, argv, parsed, project_root, cargoCalls, bindgenCalls,
                   files, portParsed, serverCalls, stdout>>

\* lines 154-174
RunBindgen ==
    /\ pc = "bindgen"
    /\ \E ok \in BOOLEAN :
        /\ bindgenCalls' = Append(bindgenCalls,
               [web |-> TRUE, omit_default_module_path |-> FALSE,
                input_path |-> WasmSource(project_root[1], parsed.args),
                out |-> ExampleDest(project_root[1], parsed.args),
                ok |-> ok])
        /\ pc' = IF ok THEN "index" ELSE "panicked"
    /\ UNCHANGED <<css, argv, parsed, project_root, cargoCalls, dirs, files,
                   portParsed, serverCalls, stdout>>

\* lines 176-182
WriteIndex ==
    /\ pc = "index"
    /\ \E ok \in BOOLEAN :
        IF ok
        THEN /\ files' = files \cup
                   {[path |-> Join(ExampleDest(project_root[1], parsed.args),
                                   <<"index.html">>),
                     content |-> RenderIndex(IndexTemplate, parsed.args.name,
                                             css)]}
             /\ pc' = "serve"
        ELSE /\ pc' = "panicked"
             /\ UNCHANGED files
    /\ UNCHANGED <<css, argv, parsed, project_root, cargoCalls, dirs,
                   bindgenCalls, portParsed, serverCalls, stdout>>

\* line 184 with build_only: the function ends
SkipServe ==
    /\ pc = "serve"
    /\ ~ServeWanted(parsed.args)
    /\ pc' = "returned"
    /\ UNCHANGED <<css, argv, parsed, project_root, cargoCalls, dirs,
                   bindgenCalls, files, portParsed, serverCalls, stdout>>

\* lines 184-201
Serve ==
    /\ pc = "serve"
    /\ ServeWanted(parsed.args)
    /\ LET a == parsed.args
           host == IF a.host = None THEN DefaultHost ELSE a.host[1]
           port == ParsePort(IF a.port = None THEN DefaultPort ELSE a.port[1])
       IN  IF port = None
           THEN /\ pc' = "panicked"
                /\ UNCHANGED <<portParsed, serverCalls, stdout>>
           ELSE /\ portParsed' = port
                /\ stdout' = Append(stdout,
                                    [what |-> "Serving", err |-> NoErr,
                                     text |-> <<>>, name |-> a.name,
                                     host |-> host, port |-> port[1]])
                /\ serverCalls' = Append(serverCalls,
                       [host |-> host, port |-> port[1],
                        directory |-> ExampleDest(project_root[1], a),
                        reload |-> FALSE, reload_path |-> <<>>])
                /\ pc' = "serving"
    /\ UNCHANGED <<css, argv, parsed, project_root, cargoCalls, dirs,
                   bindgenCalls, files>>

Next ==
    \/ ValidateCss
    \/ ParseArgs
    \/ ResolveRoot
    \/ RunCargo
    \/ CargoSpawnFails
    \/ CreateDir
    \/ RunBindgen
    \/ WriteIndex
    \/ SkipServe
    \/ Serve

Spec == Init /\ [][Next]_vars

TypeOK ==
    /\ pc \in {"validate", "args", "root", "cargo", "mkdir", "bindgen",
               "index", "serve", "returned", "panicked", "serving"}
    /\ css \in CssInputs
    /\ Len(argv) <= 1
    /\ parsed.kind \in {"None", "Ok", "Err", "Panic"}


\* ================================================================== claims
NoEffects ==
    /\ cargoCalls = <<>>
    /\ dirs = {}
    /\ bindgenCalls = <<>>
    /\ files = {}
    /\ serverCalls = <<>>

ArgsRead == argv # None
Raw == argv[1]
NonOptions(v) == {i \in 1..Len(v) : ~IsOption(v[i])}
Has(v, tok) == \E i \in 1..Len(v) : v[i] = tok

\* C1: a css argument containing </style> is rejected before anything else
\* happens: the arguments are never read, the compiler never invoked, no
\* directory created, Bindgen never called, no page written, no server
\* started, nothing printed.
C1_GuardBeforeEffects ==
    StrContains(css, CloseStyle) =>
        /\ pc \in {"validate", "panicked"}
        /\ ~ArgsRead
        /\ NoEffects
        /\ stdout = <<>>

C1_Witness == pc = "panicked" /\ StrContains(css, CloseStyle) /\ ~ArgsRead

\* C2: when Args::from_env returns Err, the run prints the error with HELP
\* and returns; no compiler, directory, Bindgen, page or server.
C2_ConfigErrorStopsRun ==
    parsed.kind = "Err" =>
        /\ pc = "returned"
        /\ Len(stdout) = 1
        /\ stdout[1].what = "error and HELP"
        /\ stdout[1].err = parsed.err
        /\ stdout[1].text = HELP
        /\ NoEffects

C2_Witness ==
    /\ parsed.kind = "Err"
    /\ parsed.err.kind = "TooManyArgs"
    /\ pc = "returned"
    /\ Len(stdout) = 1

\* Every --features/--host/--port of the vector is followed by a token that
\* does not start with '-'.
ValuesGiven(v) ==
    \A i \in 1..Len(v) :
        v[i] \in ValueFlags => i < Len(v) /\ ~IsOption(v[i + 1])
\* Positions of the tokens that neither start with '-' nor follow a value flag.
FreeArgs(v) ==
    {i \in NonOptions(v) : i = 1 \/ v[i - 1] \notin ValueFlags}
OnlyRecognized(v) ==
    \A i \in 1..Len(v) : IsOption(v[i]) => v[i] \in RecognizedFlags
NoRepeat(v) ==
    \A i, j \in 1..Len(v) : (i # j /\ IsOption(v[i])) => v[i] # v[j]

\* C3 as stated: exactly one token not starting with '-' and otherwise only
\* recognized flags gives Ok with that token as name. Stated of the runs in
\* which from_env returns, so that the abort on a value flag without a value
\* (C6) is not what refutes it.
C3_Original ==
    (ArgsRead /\ parsed.kind # "Panic" /\ Cardinality(NonOptions(Raw)) = 1
       /\ OnlyRecognized(Raw)) =>
        /\ parsed.kind = "Ok"
        /\ \A i \in NonOptions(Raw) : parsed.args.name = Raw[i]

\* C3 (amended): when flag extraction leaves exactly one token and it does
\* not start with '-', from_env succeeds with that token as name; this is so
\* for every vector of recognized flags, none repeated, each value flag
\* followed by a value not starting with '-', and exactly one further token
\* not starting with '-'.
C3_OneFreeArgIsName ==
    ArgsRead =>
        /\ (parsed.kind # "Panic" /\ Len(parsed.unused) = 1
              /\ ~IsOption(parsed.unused[1])) =>
              (parsed.kind = "Ok" /\ parsed.args.name = parsed.unused[1])
        /\ (OnlyRecognized(Raw) /\ NoRepeat(Raw) /\ ValuesGiven(Raw)
              /\ Cardinality(FreeArgs(Raw)) = 1) =>
              /\ parsed.kind = "Ok"
              /\ \A i \in FreeArgs(Raw) : parsed.args.name = Raw[i]
              /\ parsed.args.release = Has(Raw, FlagRelease)
              /\ parsed.args.example = Has(Raw, FlagExample)
              /\ parsed.args.build_only = Has(Raw, FlagBuildOnly)

C3_Witness ==
    /\ ArgsRead
    /\ Raw = <<FlagFeatures, Tok80, TokDemo>>
    /\ parsed.kind = "Ok"
    /\ parsed.args.name = TokDemo
    /\ parsed.args.features = Some(Tok80)

\* C4 as stated: a token starting with '-' that is not a recognized flag,
\* anywhere in the vector, gives the UnknownOption error. Stated of the runs
\* in which from_env returns (see C6).
C4_Original ==
    (ArgsRead /\ parsed.kind # "Panic" /\ ~OnlyRecognized(Raw)) =>
        (parsed.kind = "Err" /\ parsed.err.kind = "UnknownOption")

\* C4 (amended): when the tokens left after flag extraction include one that
\* starts with '-', from_env fails with UnknownOption naming the first such
\* token, wherever it sits and however many other tokens are left; this is
\* so for every vector that has an unrecognized '-' token and whose value
\* flags are each followed by a value not starting with '-'.
C4_LeftoverOptionIsUnknown ==
    ArgsRead =>
        /\ (parsed.kind # "Panic"
              /\ \E i \in 1..Len(parsed.unused) : IsOption(parsed.unused[i])) =>
              /\ parsed.kind = "Err"
              /\ parsed.err.kind = "UnknownOption"
              /\ \E i \in 1..Len(parsed.unused) :
                    /\ parsed.err.tok = parsed.unused[i]
                    /\ IsOption(parsed.unused[i])
                    /\ \A j \in 1..(i - 1) : ~IsOption(parsed.unused[j])
        /\ (~OnlyRecognized(Raw) /\ ValuesGiven(Raw)) =>
              (parsed.kind = "Err" /\ parsed.err.kind = "UnknownOption")

C4_Witness ==
    /\ ArgsRead
    /\ Raw = <<TokDemo, Tok80, TokBogus>>
    /\ parsed.kind = "Err"
    /\ parsed.err.kind = "UnknownOption"
    /\ parsed.err.tok = TokBogus

\* C5 as stated: no token without a leading '-' gives MissingName, two or
\* more give TooManyArgs. Stated of the runs in which from_env returns (see
\* C6).
C5_Original ==
    (ArgsRead /\ parsed.kind # "Panic") =>
        /\ Cardinality(NonOptions(Raw)) = 0 =>
              (parsed.kind = "Err" /\ parsed.err.kind = "MissingName")
        /\ Cardinality(NonOptions(Raw)) >= 2 =>
              (parsed.kind = "Err" /\ parsed.err.kind = "TooManyArgs")

\* C5 (amended): when flag extraction leaves no token starting with '-',
\* zero tokens left give MissingName and two or more give TooManyArgs with
\* their number and list; this is so for every vector of recognized flags,
\* none repeated, each value flag followed by a value not starting with '-',
\* counting the tokens that neither start with '-' nor are such a value.
C5_ArityErrors ==
    ArgsRead =>
        /\ (parsed.kind # "Panic"
              /\ \A i \in 1..Len(parsed.unused) : ~IsOption(parsed.unused[i])) =>
              /\ Len(parsed.unused) = 0 =>
                    (parsed.kind = "Err" /\ parsed.err.kind = "MissingName")
              /\ Len(parsed.unused) >= 2 =>
                    /\ parsed.kind = "Err"
                    /\ parsed.err.kind = "TooManyArgs"
                    /\ parsed.err.len = Len(parsed.unused)
                    /\ parsed.err.list = parsed.unused
        /\ (OnlyRecognized(Raw) /\ NoRepeat(Raw) /\ ValuesGiven(Raw)) =>
              /\ Cardinality(FreeArgs(Raw)) = 0 =>
                    (parsed.kind = "Err" /\ parsed.err.kind = "MissingName")
              /\ Cardinality(FreeArgs(Raw)) >= 2 =>
                    (parsed.kind = "Err" /\ parsed.err.kind = "TooManyArgs")

C5_Witness ==
    /\ ArgsRead
    /\ Raw = <<TokDemo, FlagRelease, Tok80>>
    /\ parsed.kind = "Err"
    /\ parsed.err.kind = "TooManyArgs"
    /\ parsed.err.list = <<TokDemo, Tok80>>

\* C6: a value flag standing last in the vector, with no value after it, is
\* answered with a ConfigError that is printed with the usage text, and the
\* run returns normally.
C6_MissingValueIsConfigError ==
    (ArgsRead /\ Raw # <<>> /\ Raw[Len(Raw)] \in ValueFlags) =>
        /\ parsed.kind = "Err"
        /\ pc = "returned"
        /\ Len(stdout) = 1

\* C7: the path given to Bindgen is
\* <root>/<--target-dir>/<--target>/<profile>/[examples/]<name>.wasm with the
\* --target-dir and --target values of this run's compiler invocation, which
\* are target/wasm-examples-target and wasm32-unknown-unknown; profile is
\* release iff release is set (and --release was passed), else debug;
\* examples/ is there iff example is set.
ArgAfter(args, key) == args[IndexOf(args, key) + 1]
Dir(p) == IF p = <<"/">> THEN p ELSE p \o <<"/">>

C7_ArtifactPath ==
    \A k \in 1..Len(bindgenCalls) :
        LET a == parsed.args
            c == cargoCalls[Len(cargoCalls)]
            td == ArgAfter(c.args, <<"--target-dir">>)
            t == ArgAfter(c.args, <<"--target">>)
            prof == IF a.release THEN <<"release">> ELSE <<"debug">>
            ex == IF a.example THEN <<"examples", "/">> ELSE <<>>
        IN  /\ Len(cargoCalls) = 1
            /\ c.current_dir = project_root[1]
            /\ td = <<"target", "/", "wasm-examples-target">>
            /\ t = <<"wasm32-unknown-unknown">>
            /\ a.release = Has(c.args, FlagRelease)
            /\ bindgenCalls[k].input_path =
                  Dir(project_root[1]) \o td \o <<"/">> \o t \o <<"/">>
                  \o prof \o <<"/">> \o ex \o a.name \o <<".wasm">>

C7_Witness ==
    /\ Len(bindgenCalls) = 1
    /\ parsed.args.release
    /\ parsed.args.example
    /\ bindgenCalls[1].input_path =
          <<"/", "w", "s", "/", "target", "/", "wasm-examples-target", "/",
            "wasm32-unknown-unknown", "/", "release", "/", "examples", "/",
            "d", "e", "m", "o", ".wasm">>

\* C8: when the compiler reports failure the run ends there, silently:
\* nothing printed, no directory created, no Bindgen, no page, no server.
C8_CompilerFailureStopsSilently ==
    (cargoCalls # <<>> /\ ~cargoCalls[Len(cargoCalls)].success) =>
        /\ pc = "returned"
        /\ stdout = <<>>
        /\ dirs = {}
        /\ bindgenCalls = <<>>
        /\ files = {}
        /\ serverCalls = <<>>

C8_Witness ==
    /\ Len(cargoCalls) = 1
    /\ ~cargoCalls[1].success
    /\ pc = "returned"

\* C9: with --build-only among the arguments the port is never parsed and
\* the server never called, and once the page is written the run is at the
\* build_only test or has returned; without it the server is started only
\* when index.html is already in the directory it serves.
C9_BuildOnlyNeverServes ==
    /\ (ArgsRead /\ Has(Raw, FlagBuildOnly)) =>
          /\ serverCalls = <<>>
          /\ portParsed = None
          /\ pc # "serving"
          /\ files # {} => pc \in {"serve", "returned"}
    /\ \A k \in 1..Len(serverCalls) :
          /\ ~Has(Raw, FlagBuildOnly)
          /\ \E f \in files :
                f.path = Dir(serverCalls[k].directory) \o <<"index.html">>
          /\ Len(bindgenCalls) = 1 /\ bindgenCalls[1].ok
          /\ Len(cargoCalls) = 1 /\ cargoCalls[1].success

C9_Witness ==
    /\ ArgsRead
    /\ Has(Raw, FlagBuildOnly)
    /\ pc = "returned"
    /\ files # {}
    /\ Len(bindgenCalls) = 1
    /\ serverCalls = <<>>

\* Replacing both placeholders of the template in one pass, each occurrence
\* of the template by its value.
RECURSIVE SubstituteBoth(_, _, _)
SubstituteBoth(t, name, c) ==
    IF t = <<>> THEN <<>>
    ELSE IF StartsWith(t, NamePlaceholder)
    THEN name \o SubstituteBoth(SubSeq(t, Len(NamePlaceholder) + 1, Len(t)),
                                name, c)
    ELSE IF StartsWith(t, CssPlaceholder)
    THEN c \o SubstituteBoth(SubSeq(t, Len(CssPlaceholder) + 1, Len(t)),
                             name, c)
    ELSE <<Head(t)>> \o SubstituteBoth(Tail(t), name, c)

====
